---- MODULE Spec2Model ----
(***************************************************************************)
(* The unconfirmed-transaction pool TXNPool of msg/node/transactionPool.go. *)
(* Every locked accessor of the pool (addtxnList, deltxnList,              *)
(* getInputUTXOList, addInputUTXOList, delInputUTXOList,                   *)
(* incrAssetIssueAmountSummary, decrAssetIssueAmountSummary,               *)
(* getAssetIssueAmount) takes the RWMutex for its own body only, so each   *)
(* accessor call is one atomic step of the calling goroutine and the       *)
(* public operations AppendTxnPool and CleanSubmittedTransactions are      *)
(* sequences of such steps.  GetTxnPool, GetTransaction and                *)
(* GetTransactionCount run under one RLock and are one step each.          *)
(* lockAssetList is read and written without the mutex.                    *)
(***************************************************************************)
EXTENDS Integers, Sequences, FiniteSets, TLC

\* ------------------------------------------------------------------ bounds
\* goroutines calling into the pool at the same time
NumProcs == 2
\* calls begun in one behaviour of Spec
MaxCalls == 2
\* calls begun in one behaviour of SpecAppend
MaxAppendCalls == 3
\* calls begun in one behaviour of SpecSeq
MaxSeqCalls == 3
\* calls begun in one behaviour of SpecSeqPool
MaxPoolCalls == 4
\* transactions of a block besides its bookkeeping transaction
MaxBlockTxns == 2

Procs == 1..NumProcs

\* ------------------------------------------------------ the transactions
\* A transaction as the pool sees it: txn.TxType, the key set of
\* txn.GetReference(), payload.LockAsset.ToString() and
\* txn.GetMergedAssetIDValueFromOutputs().
NoAmounts == [a \in {} |-> 0]

Tx ==
  [ BK |-> [TxType |-> "BookKeeping",   ref |-> {},           lock |-> "",  out |-> NoAmounts],
    T1 |-> [TxType |-> "TransferAsset", ref |-> {"o1"},       lock |-> "",  out |-> NoAmounts],
    T2 |-> [TxType |-> "TransferAsset", ref |-> {"o1", "o2"}, lock |-> "",  out |-> NoAmounts],
    T3 |-> [TxType |-> "LockAsset",     ref |-> {"o3"},       lock |-> "L", out |-> NoAmounts],
    T4 |-> [TxType |-> "LockAsset",     ref |-> {"o2"},       lock |-> "L", out |-> NoAmounts],
    T5 |-> [TxType |-> "IssueAsset",    ref |-> {},           lock |-> "",  out |-> [a \in {"A"} |-> 1]],
    T6 |-> [TxType |-> "IssueAsset",    ref |-> {"o3"},       lock |-> "",  out |-> [a \in {"A", "B"} |-> 2]],
    T7 |-> [TxType |-> "IssueAsset",    ref |-> {},           lock |-> "",  out |-> [a \in {"A"} |-> 2]] ]

Txns == DOMAIN Tx
\* the transactions a caller hands to AppendTxnPool: a bookkeeping transaction
\* comes only inside a block
PoolTxns == Txns \ {"BK"}
Assets == {"A", "B"}

GetReference(t) == Tx[t].ref
GetMergedAssetIDValueFromOutputs(t) == Tx[t].out

\* the order of the transactions inside a block
Rank(t) == CASE t = "BK" -> 0 [] t = "T1" -> 1 [] t = "T2" -> 2 [] t = "T3" -> 3
             [] t = "T4" -> 4 [] t = "T5" -> 5 [] t = "T6" -> 6 [] t = "T7" -> 7

RECURSIVE SeqOf(_)
SeqOf(S) ==
  IF S = {} THEN << >>
  ELSE LET m == CHOOSE x \in S : \A y \in S : Rank(x) <= Rank(y)
       IN <<m>> \o SeqOf(S \ {m})

\* block.Transactions: the bookkeeping transaction, then up to MaxBlockTxns others
Blocks == { SeqOf(S \cup {"BK"}) : S \in { X \in SUBSET PoolTxns : Cardinality(X) <= MaxBlockTxns } }

Range(s) == { s[i] : i \in 1..Len(s) }

\* ------------------------------------------------------------ the ledger
\* payload.RegisterAsset.Amount of the asset's registration (negative: no cap)
\* and transaction.TxStore.GetQuantityIssued, both constant during a behaviour.
\* Both assets capped, one capped and one not, neither capped.
Registrations ==
  { [A |-> 3, B |-> 2], [A |-> 3, B |-> -1], [A |-> -1, B |-> -1] }
QuantityIssued == [A |-> 1, B |-> 1]

\* ------------------------------------------------------ the configuration
\* config.Parameters.MaxTxInBlock as a call of GetTxnPool may find it
MaxTxInBlockValues == {-1, 0, 1, 2}

\* ---------------------------------------------------------- result codes
ErrNoError            == "ErrNoError"
ErrDoubleSpend        == "ErrDoubleSpend"
ErrDuplicateLockAsset == "ErrDuplicateLockAsset"
ErrSummaryAsset       == "ErrSummaryAsset"
\* what va.VerifyTransaction and va.VerifyTransactionWithLedger may answer
VerifyCodes == {ErrNoError, "ErrTransactionInvalid"}
LedgerCodes == {ErrNoError, "ErrLedgerInvalid"}

\* ------------------------------------------------------------- the state
VARIABLES
  txnList,        \* TXNPool.txnList: the hashes of the pending transactions
  inputUTXOList,  \* TXNPool.inputUTXOList: output key -> transaction claiming it
  issueSummary,   \* TXNPool.issueSummary: asset -> amount of the pending issues
  lockAssetList,  \* TXNPool.lockAssetList: the LockAsset payload strings
  AssetReg,       \* the ledger's RegisterAsset amount of every asset
  pc,             \* where every goroutine stands in its call
  local,          \* the arguments and local variables of that call
  calls,          \* calls begun so far
  pre,            \* the four containers when the running calls began
  burst,          \* calls begun since pre was taken
  fatal           \* the runtime ended the process: concurrent map access

pool == <<txnList, inputUTXOList, issueSummary, lockAssetList>>
vars == <<txnList, inputUTXOList, issueSummary, lockAssetList, AssetReg,
          pc, local, calls, pre, burst, fatal>>

EmptyMap == [k \in {} |-> 0]

Containers(L, U, S, G) == [txnList |-> L, inputUTXOList |-> U, issueSummary |-> S, lockAssetList |-> G]
Now == Containers(txnList, inputUTXOList, issueSummary, lockAssetList)

\* a goroutine outside any call
\* verify and ledger are the answers of the two validators ("": not asked);
\* byCount and MaxTxInBlock are what GetTxnPool is called with, ret is the map
\* (its key set) or the transaction (a set of at most one) that a query
\* returned and n the count that GetTransactionCount returned
NoCall == [op |-> "none", txn |-> "BK", poolVerify |-> FALSE, block |-> << >>,
           verify |-> "", ledger |-> "",
           byCount |-> FALSE, MaxTxInBlock |-> 0, ret |-> {}, n |-> 0,
           todo |-> {}, inputs |-> << >>, i |-> 0, k |-> "", res |-> ""]

\* TXNPool.init
Init ==
  /\ txnList = {}
  /\ inputUTXOList = EmptyMap
  /\ issueSummary = EmptyMap
  /\ lockAssetList = {}
  /\ AssetReg \in Registrations
  /\ pc = [p \in Procs |-> "idle"]
  /\ local = [p \in Procs |-> NoCall]
  /\ calls = 0
  /\ pre = Containers({}, EmptyMap, EmptyMap, {})
  /\ burst = 0
  /\ fatal = FALSE

\* ------------------------------------------------- the locked accessors
\* each is the body run under this.Lock() / this.RLock(), on the map it uses
addtxnList(L, t) == L \cup {t}

deltxnList(L, t) == L \ {t}

\* "nil" stands for the nil *Transaction of a missing key
getInputUTXOList(U, k) == IF k \in DOMAIN U THEN U[k] ELSE "nil"

addInputUTXOList(U, t, k) ==
  IF k \in DOMAIN U THEN U
  ELSE [x \in DOMAIN U \cup {k} |-> IF x = k THEN t ELSE U[x]]

delInputUTXOList(U, k) == [x \in DOMAIN U \ {k} |-> U[x]]

getAssetIssueAmount(S, a) == IF a \in DOMAIN S THEN S[a] ELSE 0

incrAssetIssueAmountSummary(S, a, delta) ==
  [x \in DOMAIN S \cup {a} |-> IF x = a THEN getAssetIssueAmount(S, a) + delta ELSE S[x]]

\* decrAssetIssueAmountSummary without the floor at zero
decrUnclamped(S, a, delta) ==
  IF a \notin DOMAIN S THEN S ELSE [S EXCEPT ![a] = S[a] - delta]

decrAssetIssueAmountSummary(S, a, delta) ==
  IF a \notin DOMAIN S THEN S
  ELSE LET amount == S[a] - delta
       IN [S EXCEPT ![a] = IF amount < 0 THEN 0 ELSE amount]

\* ------------------------------------------------------------ call frames
\* a call may begin: alone asks that no other goroutine is inside or just
\* out of a call (the sequential specifications)
CanBegin(p, alone, max) ==
  /\ ~fatal
  /\ pc[p] = "idle"
  /\ calls < max
  /\ alone => \A q \in Procs : pc[q] = "idle"

\* the containers are recorded when a call begins while no other call runs
Quiet(p) == \A q \in Procs \ {p} : pc[q] = "idle"

Record(p) ==
  /\ calls' = calls + 1
  /\ pre' = IF Quiet(p) THEN Now ELSE pre
  /\ burst' = IF Quiet(p) THEN 1 ELSE burst + 1

\* the call with frame f of p ends with result r
Finish(p, f, r) ==
  /\ pc' = [pc EXCEPT ![p] = "done"]
  /\ local' = [local EXCEPT ![p] = [f EXCEPT !.res = r, !.todo = {}, !.inputs = << >>, !.i = 0, !.k = ""]]

\* a query of p ends: the whole body ran under one RLock
Answer(p, f) ==
  /\ pc' = [pc EXCEPT ![p] = "done"]
  /\ local' = [local EXCEPT ![p] = f]

\* p goes on to the step label of its call
Goto(p, f, label, todo, inputs, k) ==
  /\ pc' = [pc EXCEPT ![p] = label]
  /\ local' = [local EXCEPT ![p] = [f EXCEPT !.todo = todo, !.inputs = inputs, !.k = k]]

IssuedAssets(t) == DOMAIN GetMergedAssetIDValueFromOutputs(t)

\* verifyTransactionWithTxnPool once checkDuplicateLockAsset has returned nil:
\* summaryAssetIssueAmount loops over the issued assets of an IssueAsset
\* transaction and returns true at once for any other
AfterLock(p, f) ==
  IF Tx[f.txn].TxType = "IssueAsset" /\ IssuedAssets(f.txn) # {}
  THEN Goto(p, f, "incrAssetIssueAmountSummary", IssuedAssets(f.txn), << >>, "")
  ELSE Goto(p, f, "addtxnList", {}, << >>, "")

\* verifyTransactionWithTxnPool once apendToUTXOPool has returned nil:
\* checkDuplicateLockAsset touches lockAssetList for a LockAsset transaction only
AfterUTXO(p, f) ==
  IF Tx[f.txn].TxType = "LockAsset"
  THEN Goto(p, f, "checkDuplicateLockAsset", {}, << >>, "")
  ELSE AfterLock(p, f)

\* --------------------------------------------------------- AppendTxnPool
\* AppendTxnPool that runs verifyTransactionWithTxnPool whatever poolVerify is
AppendTxnPoolAlwaysVerify(p, pvs, alone, max) ==
  /\ CanBegin(p, alone, max)
  /\ \E t \in PoolTxns, poolVerify \in pvs, v1 \in VerifyCodes, v2 \in LedgerCodes :
       LET f == [NoCall EXCEPT !.op = "AppendTxnPool", !.txn = t, !.poolVerify = poolVerify,
                               !.verify = v1, !.ledger = IF v1 = ErrNoError THEN v2 ELSE ""]
       IN /\ v1 # ErrNoError => v2 = ErrNoError
          /\ IF v1 # ErrNoError THEN Finish(p, f, v1)
             ELSE IF v2 # ErrNoError THEN Finish(p, f, v2)
             ELSE IF GetReference(t) = {} THEN AfterUTXO(p, f)
             ELSE Goto(p, f, "getInputUTXOList", GetReference(t), << >>, "")
  /\ Record(p)
  /\ UNCHANGED <<pool, AssetReg, fatal>>

\* AppendTxnPool that goes on after a failed VerifyTransactionWithLedger
AppendTxnPoolLedgerIgnored(p, pvs, alone, max) ==
  /\ CanBegin(p, alone, max)
  /\ \E t \in PoolTxns, poolVerify \in pvs, v1 \in VerifyCodes, v2 \in LedgerCodes :
       LET f == [NoCall EXCEPT !.op = "AppendTxnPool", !.txn = t, !.poolVerify = poolVerify,
                               !.verify = v1, !.ledger = IF v1 = ErrNoError THEN v2 ELSE ""]
       IN /\ v1 # ErrNoError => v2 = ErrNoError
          /\ IF v1 # ErrNoError THEN Finish(p, f, v1)
             ELSE IF ~poolVerify THEN Goto(p, f, "addtxnList", {}, << >>, "")
             ELSE IF GetReference(t) = {} THEN AfterUTXO(p, f)
             ELSE Goto(p, f, "getInputUTXOList", GetReference(t), << >>, "")
  /\ Record(p)
  /\ UNCHANGED <<pool, AssetReg, fatal>>

\* The call begins: va.VerifyTransaction and va.VerifyTransactionWithLedger
\* answer v1 and v2 without touching the pool.
AppendTxnPool(p, pvs, alone, max) ==
  /\ CanBegin(p, alone, max)
  /\ \E t \in PoolTxns, poolVerify \in pvs, v1 \in VerifyCodes, v2 \in LedgerCodes :
       LET f == [NoCall EXCEPT !.op = "AppendTxnPool", !.txn = t, !.poolVerify = poolVerify,
                               !.verify = v1, !.ledger = IF v1 = ErrNoError THEN v2 ELSE ""]
       IN /\ v1 # ErrNoError => v2 = ErrNoError
          /\ IF v1 # ErrNoError THEN Finish(p, f, v1)
             ELSE IF v2 # ErrNoError THEN Finish(p, f, v2)
             ELSE IF ~poolVerify THEN Goto(p, f, "addtxnList", {}, << >>, "")
             ELSE IF GetReference(t) = {} THEN AfterUTXO(p, f)
             ELSE Goto(p, f, "getInputUTXOList", GetReference(t), << >>, "")
  /\ Record(p)
  /\ UNCHANGED <<pool, AssetReg, fatal>>

\* apendToUTXOPool with check and record in one loop: a reference is claimed as
\* soon as it is found free
ApendCheckEager(p) ==
  /\ ~fatal /\ pc[p] = "getInputUTXOList"
  /\ \E k \in local[p].todo :
       IF getInputUTXOList(inputUTXOList, k) # "nil"
       THEN Finish(p, local[p], ErrDoubleSpend) /\ UNCHANGED inputUTXOList
       ELSE LET rest == local[p].todo \ {k}
                inputs == Append(local[p].inputs, k)
            IN /\ inputUTXOList' = addInputUTXOList(inputUTXOList, local[p].txn, k)
               /\ IF rest = {}
                  THEN Goto(p, local[p], "addInputUTXOList", {}, inputs, "")
                  ELSE Goto(p, local[p], "getInputUTXOList", rest, inputs, "")
  /\ UNCHANGED <<txnList, issueSummary, lockAssetList, AssetReg, calls, pre, burst, fatal>>

\* apendToUTXOPool, first loop: one getInputUTXOList(k) of the range over
\* reference (a Go map: any order)
ApendCheck(p) ==
  /\ ~fatal /\ pc[p] = "getInputUTXOList"
  /\ \E k \in local[p].todo :
       IF getInputUTXOList(inputUTXOList, k) # "nil"
       THEN Finish(p, local[p], ErrDoubleSpend)
       ELSE LET rest == local[p].todo \ {k}
                inputs == Append(local[p].inputs, k)
            IN IF rest = {}
               THEN Goto(p, local[p], "addInputUTXOList", {}, inputs, "")
               ELSE Goto(p, local[p], "getInputUTXOList", rest, inputs, "")
  /\ UNCHANGED <<pool, AssetReg, calls, pre, burst, fatal>>

\* apendToUTXOPool, second loop: one addInputUTXOList(txn, v)
ApendRecord(p) ==
  /\ ~fatal /\ pc[p] = "addInputUTXOList"
  /\ inputUTXOList' = addInputUTXOList(inputUTXOList, local[p].txn, Head(local[p].inputs))
  /\ IF Tail(local[p].inputs) = << >>
     THEN AfterUTXO(p, local[p])
     ELSE Goto(p, local[p], "addInputUTXOList", {}, Tail(local[p].inputs), "")
  /\ UNCHANGED <<txnList, issueSummary, lockAssetList, AssetReg, calls, pre, burst, fatal>>

\* checkDuplicateLockAsset: the lookup this.lockAssetList[str], outside the mutex
CheckDuplicateLockAsset(p) ==
  /\ ~fatal /\ pc[p] = "checkDuplicateLockAsset"
  /\ IF Tx[local[p].txn].lock \in lockAssetList
     THEN Finish(p, local[p], ErrDuplicateLockAsset)
     ELSE Goto(p, local[p], "lockAssetListInsert", {}, << >>, "")
  /\ UNCHANGED <<pool, AssetReg, calls, pre, burst, fatal>>

\* checkDuplicateLockAsset: the store this.lockAssetList[str] = struct{}{}
LockAssetListInsert(p) ==
  /\ ~fatal /\ pc[p] = "lockAssetListInsert"
  /\ lockAssetList' = lockAssetList \cup {Tx[local[p].txn].lock}
  /\ AfterLock(p, local[p])
  /\ UNCHANGED <<txnList, inputUTXOList, issueSummary, AssetReg, calls, pre, burst, fatal>>

\* summaryAssetIssueAmount that checks the cap of every asset, a negative
\* registered amount included
SummaryIncrAlwaysChecked(p) ==
  /\ ~fatal /\ pc[p] = "incrAssetIssueAmountSummary"
  /\ \E k \in local[p].todo :
       /\ issueSummary' = incrAssetIssueAmountSummary(issueSummary, k,
                              GetMergedAssetIDValueFromOutputs(local[p].txn)[k])
       /\ Goto(p, local[p], "getAssetIssueAmount", local[p].todo \ {k}, << >>, k)
  /\ UNCHANGED <<txnList, inputUTXOList, lockAssetList, AssetReg, calls, pre, burst, fatal>>

\* summaryAssetIssueAmount: incrAssetIssueAmountSummary(k, delta) for one asset
\* of the range over transactionResult (a Go map: any order), then the
\* registration of k; an asset registered with a negative amount is not checked
SummaryIncr(p) ==
  /\ ~fatal /\ pc[p] = "incrAssetIssueAmountSummary"
  /\ \E k \in local[p].todo :
       LET rest == local[p].todo \ {k}
       IN /\ issueSummary' = incrAssetIssueAmountSummary(issueSummary, k,
                                 GetMergedAssetIDValueFromOutputs(local[p].txn)[k])
          /\ IF AssetReg[k] < 0
             THEN IF rest = {}
                  THEN Goto(p, local[p], "addtxnList", {}, << >>, "")
                  ELSE Goto(p, local[p], "incrAssetIssueAmountSummary", rest, << >>, "")
             ELSE Goto(p, local[p], "getAssetIssueAmount", rest, << >>, k)
  /\ UNCHANGED <<txnList, inputUTXOList, lockAssetList, AssetReg, calls, pre, burst, fatal>>

\* summaryAssetIssueAmount: AssetReg.Amount-quantity_issued < this.getAssetIssueAmount(k);
\* on false verifyTransactionWithTxnPool calls removeTransaction
SummaryCheck(p) ==
  /\ ~fatal /\ pc[p] = "getAssetIssueAmount"
  /\ LET k == local[p].k
     IN IF AssetReg[k] - QuantityIssued[k] < getAssetIssueAmount(issueSummary, k)
        THEN Goto(p, local[p], "removeTransaction", {}, << >>, "")
        ELSE IF local[p].todo = {}
             THEN Goto(p, local[p], "addtxnList", {}, << >>, "")
             ELSE Goto(p, local[p], "incrAssetIssueAmountSummary", local[p].todo, << >>, "")
  /\ UNCHANGED <<pool, AssetReg, calls, pre, burst, fatal>>

\* removeTransaction, 1: deltxnList(txn)
RemoveDeltxn(p) ==
  /\ ~fatal /\ pc[p] = "removeTransaction"
  /\ txnList' = deltxnList(txnList, local[p].txn)
  /\ IF GetReference(local[p].txn) # {}
     THEN Goto(p, local[p], "removeInputs", GetReference(local[p].txn), << >>, "")
     ELSE IF Tx[local[p].txn].TxType = "IssueAsset" /\ IssuedAssets(local[p].txn) # {}
          THEN Goto(p, local[p], "removeSummary", IssuedAssets(local[p].txn), << >>, "")
          ELSE Finish(p, local[p], ErrSummaryAsset)
  /\ UNCHANGED <<inputUTXOList, issueSummary, lockAssetList, AssetReg, calls, pre, burst, fatal>>

\* removeTransaction, 2: delInputUTXOList of one referenced output
RemoveInputs(p) ==
  /\ ~fatal /\ pc[p] = "removeInputs"
  /\ \E k \in local[p].todo :
       LET rest == local[p].todo \ {k}
       IN /\ inputUTXOList' = delInputUTXOList(inputUTXOList, k)
          /\ IF rest # {}
             THEN Goto(p, local[p], "removeInputs", rest, << >>, "")
             ELSE IF Tx[local[p].txn].TxType = "IssueAsset" /\ IssuedAssets(local[p].txn) # {}
                  THEN Goto(p, local[p], "removeSummary", IssuedAssets(local[p].txn), << >>, "")
                  ELSE Finish(p, local[p], ErrSummaryAsset)
  /\ UNCHANGED <<txnList, issueSummary, lockAssetList, AssetReg, calls, pre, burst, fatal>>

\* removeTransaction, 3: decrAssetIssueAmountSummary(k, delta) of one issued asset
RemoveSummary(p) ==
  /\ ~fatal /\ pc[p] = "removeSummary"
  /\ \E k \in local[p].todo :
       LET rest == local[p].todo \ {k}
       IN /\ issueSummary' = decrAssetIssueAmountSummary(issueSummary, k,
                                 GetMergedAssetIDValueFromOutputs(local[p].txn)[k])
          /\ IF rest # {}
             THEN Goto(p, local[p], "removeSummary", rest, << >>, "")
             ELSE Finish(p, local[p], ErrSummaryAsset)
  /\ UNCHANGED <<txnList, inputUTXOList, lockAssetList, AssetReg, calls, pre, burst, fatal>>

\* AppendTxnPool: this.addtxnList(txn); return ErrNoError
AddTxn(p) ==
  /\ ~fatal /\ pc[p] = "addtxnList"
  /\ txnList' = addtxnList(txnList, local[p].txn)
  /\ Finish(p, local[p], ErrNoError)
  /\ UNCHANGED <<inputUTXOList, issueSummary, lockAssetList, AssetReg, calls, pre, burst, fatal>>

\* the caller has its result
Return(p) ==
  /\ ~fatal /\ pc[p] = "done"
  /\ pc' = [pc EXCEPT ![p] = "idle"]
  /\ local' = [local EXCEPT ![p] = NoCall]
  /\ UNCHANGED <<pool, AssetReg, calls, pre, burst, fatal>>

\* --------------------------------------------- CleanSubmittedTransactions
NonBookKeeping == { t \in Txns : Tx[t].TxType # "BookKeeping" }
Referencing    == { t \in Txns : GetReference(t) # {} }
Locking        == { t \in Txns : Tx[t].TxType = "LockAsset" }
Issuing        == { t \in Txns : Tx[t].TxType = "IssueAsset" /\ IssuedAssets(t) # {} }

\* the first position from j on of block b that holds a transaction of S
FirstFrom(b, j, S) ==
  LET c == { x \in j..Len(b) : b[x] \in S }
  IN IF c = {} THEN Len(b) + 1 ELSE CHOOSE x \in c : \A y \in c : x <= y

GotoClean(p, f, label, j, todo) ==
  /\ pc' = [pc EXCEPT ![p] = label]
  /\ local' = [local EXCEPT ![p] = [f EXCEPT !.i = j, !.todo = todo]]

\* cleanIssueSummary from position j of the block on, then return nil
EnterIssueSummary(p, f, j) ==
  LET n == FirstFrom(f.block, j, Issuing)
  IN IF n <= Len(f.block)
     THEN GotoClean(p, f, "cleanIssueSummary", n, IssuedAssets(f.block[n]))
     ELSE Finish(p, f, "nil")

\* cleanLockedAssetList from position j of the block on
EnterLockedAssetList(p, f, j) ==
  LET n == FirstFrom(f.block, j, Locking)
  IN IF n <= Len(f.block)
     THEN GotoClean(p, f, "cleanLockedAssetList", n, {})
     ELSE EnterIssueSummary(p, f, 1)

\* cleanUTXOList from position j of the block on
EnterUTXOList(p, f, j) ==
  LET n == FirstFrom(f.block, j, Referencing)
  IN IF n <= Len(f.block)
     THEN GotoClean(p, f, "cleanUTXOList", n, GetReference(f.block[n]))
     ELSE EnterLockedAssetList(p, f, 1)

\* cleanTransactionList from position j of the block on: bookkeeping
\* transactions are passed over, the loop ends in GetTransactionCount()
EnterTransactionList(p, f, j) ==
  LET n == FirstFrom(f.block, j, NonBookKeeping)
  IN IF n <= Len(f.block)
     THEN GotoClean(p, f, "cleanTransactionList", n, {})
     ELSE GotoClean(p, f, "GetTransactionCount", 0, {})

\* The call begins; members asks for a block of pending transactions only.
CleanSubmittedTransactions(p, members, alone, max) ==
  /\ CanBegin(p, alone, max)
  /\ \E b \in Blocks :
       /\ members => (Range(b) \cap NonBookKeeping) \subseteq txnList
       /\ EnterTransactionList(p, [NoCall EXCEPT !.op = "CleanSubmittedTransactions", !.block = b], 1)
  /\ Record(p)
  /\ UNCHANGED <<pool, AssetReg, fatal>>

\* cleanTransactionList: one deltxnList(txn)
CleanTransactionList(p) ==
  /\ ~fatal /\ pc[p] = "cleanTransactionList"
  /\ txnList' = deltxnList(txnList, local[p].block[local[p].i])
  /\ EnterTransactionList(p, local[p], local[p].i + 1)
  /\ UNCHANGED <<inputUTXOList, issueSummary, lockAssetList, AssetReg, calls, pre, burst, fatal>>

\* cleanTransactionList: this.GetTransactionCount() for the log line
GetTransactionCount(p) ==
  /\ ~fatal /\ pc[p] = "GetTransactionCount"
  /\ EnterUTXOList(p, local[p], 1)
  /\ UNCHANGED <<pool, AssetReg, calls, pre, burst, fatal>>

\* cleanUTXOList: one delInputUTXOList of the range over the references of a
\* transaction of the block
CleanUTXOList(p) ==
  /\ ~fatal /\ pc[p] = "cleanUTXOList"
  /\ \E k \in local[p].todo :
       LET rest == local[p].todo \ {k}
       IN /\ inputUTXOList' = delInputUTXOList(inputUTXOList, k)
          /\ IF rest # {}
             THEN GotoClean(p, local[p], "cleanUTXOList", local[p].i, rest)
             ELSE EnterUTXOList(p, local[p], local[p].i + 1)
  /\ UNCHANGED <<txnList, issueSummary, lockAssetList, AssetReg, calls, pre, burst, fatal>>

\* cleanLockedAssetList: one delete(this.lockAssetList, str), outside the mutex
CleanLockedAssetList(p) ==
  /\ ~fatal /\ pc[p] = "cleanLockedAssetList"
  /\ lockAssetList' = lockAssetList \ {Tx[local[p].block[local[p].i]].lock}
  /\ EnterLockedAssetList(p, local[p], local[p].i + 1)
  /\ UNCHANGED <<txnList, inputUTXOList, issueSummary, AssetReg, calls, pre, burst, fatal>>

\* cleanIssueSummary: one decrAssetIssueAmountSummary(k, delta)
CleanIssueSummary(p) ==
  /\ ~fatal /\ pc[p] = "cleanIssueSummary"
  /\ \E k \in local[p].todo :
       LET rest == local[p].todo \ {k}
           t == local[p].block[local[p].i]
       IN /\ issueSummary' = decrAssetIssueAmountSummary(issueSummary, k,
                                 GetMergedAssetIDValueFromOutputs(t)[k])
          /\ IF rest # {}
             THEN GotoClean(p, local[p], "cleanIssueSummary", local[p].i, rest)
             ELSE EnterIssueSummary(p, local[p], local[p].i + 1)
  /\ UNCHANGED <<txnList, inputUTXOList, lockAssetList, AssetReg, calls, pre, burst, fatal>>

\* ------------------------------------------- unsynchronised lockAssetList
\* checkDuplicateLockAsset and cleanLockedAssetList use the map lockAssetList
\* without the mutex.  Two goroutines that are both about to access it, one of
\* them to write, race: besides the interleavings of their accesses the Go
\* runtime may end the process ("fatal error: concurrent map writes").
MapReaders == {"checkDuplicateLockAsset"}
MapWriters == {"lockAssetListInsert", "cleanLockedAssetList"}

ConcurrentMapFatal ==
  /\ ~fatal
  /\ \E p \in Procs, q \in Procs :
       p # q /\ pc[p] \in MapWriters /\ pc[q] \in MapReaders \cup MapWriters
  /\ fatal' = TRUE
  /\ UNCHANGED <<pool, AssetReg, pc, local, calls, pre, burst>>

\* ----------------------------------------------------------- the queries
\* GetTxnPool's range over txnList with the break after the insertion, the
\* entries of rest still to visit in any order: the maps it may end with
RECURSIVE GetTxnPoolLoopLateBreak(_, _, _, _)
GetTxnPoolLoopLateBreak(rest, txnMap, num, count) ==
  IF rest = {} THEN {txnMap}
  ELSE UNION { IF num + 1 > count THEN { txnMap \cup {t} }
               ELSE GetTxnPoolLoopLateBreak(rest \ {t}, txnMap \cup {t}, num + 1, count)
             : t \in rest }

RECURSIVE GetTxnPoolLoop(_, _, _, _)
GetTxnPoolLoop(rest, txnMap, num, count) ==
  IF rest = {} THEN {txnMap}
  ELSE UNION { IF num + 1 >= count THEN { txnMap \cup {t} }
               ELSE GetTxnPoolLoop(rest \ {t}, txnMap \cup {t}, num + 1, count)
             : t \in rest }

\* the maps GetTxnPool(byCount) may return on txnList L
GetTxnPoolMaps(L, byCount, MaxTxInBlock) ==
  LET byCountNow == IF MaxTxInBlock <= 0 THEN FALSE ELSE byCount
      count == IF Cardinality(L) < MaxTxInBlock \/ ~byCountNow
               THEN Cardinality(L) ELSE MaxTxInBlock
  IN GetTxnPoolLoop(L, {}, 0, count)

GetTxnPool(p, alone, max) ==
  /\ CanBegin(p, alone, max)
  /\ \E byCount \in BOOLEAN, m \in MaxTxInBlockValues :
       \E txnMap \in GetTxnPoolMaps(txnList, byCount, m) :
         Answer(p, [NoCall EXCEPT !.op = "GetTxnPool", !.byCount = byCount,
                                  !.MaxTxInBlock = m, !.ret = txnMap])
  /\ Record(p)
  /\ UNCHANGED <<pool, AssetReg, fatal>>

\* this.txnList[hash]: the transaction, or nil (the empty set here)
GetTransaction(p, alone, max) ==
  /\ CanBegin(p, alone, max)
  /\ \E hash \in PoolTxns :
       Answer(p, [NoCall EXCEPT !.op = "GetTransaction", !.txn = hash,
                                !.ret = txnList \cap {hash}])
  /\ Record(p)
  /\ UNCHANGED <<pool, AssetReg, fatal>>

\* a caller's GetTransactionCount
CallGetTransactionCount(p, alone, max) ==
  /\ CanBegin(p, alone, max)
  /\ Answer(p, [NoCall EXCEPT !.op = "GetTransactionCount", !.n = Cardinality(txnList)])
  /\ Record(p)
  /\ UNCHANGED <<pool, AssetReg, fatal>>

Queries(p, alone, max) ==
  \/ GetTxnPool(p, alone, max)
  \/ GetTransaction(p, alone, max)
  \/ CallGetTransactionCount(p, alone, max)

\* ------------------------------------------------------ specifications
AppendSteps(p) ==
  \/ ApendCheck(p) \/ ApendRecord(p)
  \/ CheckDuplicateLockAsset(p) \/ LockAssetListInsert(p)
  \/ SummaryIncr(p) \/ SummaryCheck(p)
  \/ RemoveDeltxn(p) \/ RemoveInputs(p) \/ RemoveSummary(p)
  \/ AddTxn(p)

CleanSteps(p) ==
  \/ CleanTransactionList(p) \/ GetTransactionCount(p) \/ CleanUTXOList(p)
  \/ CleanLockedAssetList(p) \/ CleanIssueSummary(p)

\* goroutines calling AppendTxnPool, CleanSubmittedTransactions and the
\* queries concurrently
Next ==
  \/ \E p \in Procs :
       \/ AppendTxnPool(p, BOOLEAN, FALSE, MaxCalls)
       \/ CleanSubmittedTransactions(p, FALSE, FALSE, MaxCalls)
       \/ Queries(p, FALSE, MaxCalls)
       \/ AppendSteps(p) \/ CleanSteps(p) \/ Return(p)
  \/ ConcurrentMapFatal

Spec == Init /\ [][Next]_vars

\* goroutines calling AppendTxnPool(txn, true) concurrently
NextAppend ==
  \/ \E p \in Procs :
       \/ AppendTxnPool(p, {TRUE}, FALSE, MaxAppendCalls)
       \/ AppendSteps(p) \/ Return(p)
  \/ ConcurrentMapFatal

SpecAppend == Init /\ [][NextAppend]_vars

\* one call at a time; which goroutine makes the calls does not matter, so
\* the first one makes them all
NextSeq ==
  \E p \in {1} :
    \/ AppendTxnPool(p, BOOLEAN, TRUE, MaxSeqCalls)
    \/ CleanSubmittedTransactions(p, FALSE, TRUE, MaxSeqCalls)
    \/ AppendSteps(p) \/ CleanSteps(p) \/ Return(p)

SpecSeq == Init /\ [][NextSeq]_vars

\* one call at a time: AppendTxnPool(txn, true), blocks of pending
\* transactions and the queries
NextSeqPool ==
  \E p \in {1} :
    \/ AppendTxnPool(p, {TRUE}, TRUE, MaxPoolCalls)
    \/ CleanSubmittedTransactions(p, TRUE, TRUE, MaxPoolCalls)
    \/ Queries(p, TRUE, MaxPoolCalls)
    \/ AppendSteps(p) \/ CleanSteps(p) \/ Return(p)

SpecSeqPool == Init /\ [][NextSeqPool]_vars

\* ------------------------------------------- the operations, one lock each
\* What AppendTxnPool and CleanSubmittedTransactions compute when a call runs
\* from its first accessor to its last with no other call in between: the
\* same accessors in the same order, on containers c.

\* apendToUTXOPool: ok is false on a claimed reference, and nothing is added
apendToUTXOPool(U, t) ==
  IF \E k \in GetReference(t) : getInputUTXOList(U, k) # "nil"
  THEN [ok |-> FALSE, U |-> U]
  ELSE [ok |-> TRUE,
        U |-> [x \in DOMAIN U \cup GetReference(t) |-> IF x \in DOMAIN U THEN U[x] ELSE t]]

\* checkDuplicateLockAsset
checkDuplicateLockAsset(G, t) ==
  IF Tx[t].TxType # "LockAsset" THEN [ok |-> TRUE, G |-> G]
  ELSE IF Tx[t].lock \in G THEN [ok |-> FALSE, G |-> G]
  ELSE [ok |-> TRUE, G |-> G \cup {Tx[t].lock}]

\* summaryAssetIssueAmount over the assets todo still to visit: every order of
\* the range over the map gives one outcome
RECURSIVE summaryAssetIssueAmount(_, _, _, _)
summaryAssetIssueAmount(S, t, todo, reg) ==
  IF todo = {} THEN { [ok |-> TRUE, S |-> S] }
  ELSE UNION { LET S1 == incrAssetIssueAmountSummary(S, k, GetMergedAssetIDValueFromOutputs(t)[k])
               IN IF reg[k] >= 0 /\ reg[k] - QuantityIssued[k] < getAssetIssueAmount(S1, k)
                  THEN { [ok |-> FALSE, S |-> S1] }
                  ELSE summaryAssetIssueAmount(S1, t, todo \ {k}, reg)
             : k \in todo }

\* the decrements of the assets todo of transaction t
RECURSIVE decrAll(_, _, _)
decrAll(S, t, todo) ==
  IF todo = {} THEN S
  ELSE LET k == CHOOSE x \in todo : TRUE
       IN decrAll(decrAssetIssueAmountSummary(S, k, GetMergedAssetIDValueFromOutputs(t)[k]),
                  t, todo \ {k})

\* removeTransaction
removeTransaction(c, t) ==
  Containers(deltxnList(c.txnList, t),
             [x \in DOMAIN c.inputUTXOList \ GetReference(t) |-> c.inputUTXOList[x]],
             IF Tx[t].TxType = "IssueAsset" THEN decrAll(c.issueSummary, t, IssuedAssets(t))
             ELSE c.issueSummary,
             c.lockAssetList)

\* verifyTransactionWithTxnPool, then addtxnList: the outcomes [c, res]
verifyTransactionWithTxnPool(c, t, reg) ==
  LET u == apendToUTXOPool(c.inputUTXOList, t)
      g == checkDuplicateLockAsset(c.lockAssetList, t)
      c1 == [c EXCEPT !.inputUTXOList = u.U]
      c2 == [c1 EXCEPT !.lockAssetList = g.G]
  IN IF ~u.ok THEN { [c |-> c, res |-> ErrDoubleSpend] }
     ELSE IF ~g.ok THEN { [c |-> c1, res |-> ErrDuplicateLockAsset] }
     ELSE IF Tx[t].TxType # "IssueAsset" THEN { [c |-> c2, res |-> ErrNoError] }
     ELSE { IF s.ok THEN [c |-> [c2 EXCEPT !.issueSummary = s.S], res |-> ErrNoError]
            ELSE [c |-> removeTransaction([c2 EXCEPT !.issueSummary = s.S], t), res |-> ErrSummaryAsset]
          : s \in summaryAssetIssueAmount(c.issueSummary, t, IssuedAssets(t), reg) }

\* the transactions of block b from position j on, each handled by one loop
\* of CleanSubmittedTransactions
RECURSIVE cleanIssueSummary(_, _, _)
cleanIssueSummary(S, b, j) ==
  IF j > Len(b) THEN S
  ELSE cleanIssueSummary(IF Tx[b[j]].TxType = "IssueAsset"
                         THEN decrAll(S, b[j], IssuedAssets(b[j])) ELSE S, b, j + 1)

cleanSubmittedTransactions(c, b) ==
  Containers(c.txnList \ (Range(b) \cap NonBookKeeping),
             [x \in DOMAIN c.inputUTXOList \ UNION { GetReference(t) : t \in Range(b) }
                |-> c.inputUTXOList[x]],
             cleanIssueSummary(c.issueSummary, b, 1),
             c.lockAssetList \ { Tx[t].lock : t \in Range(b) \cap Locking })

PoolCodes == {ErrNoError, ErrDoubleSpend, ErrDuplicateLockAsset, ErrSummaryAsset}

\* the outcomes [c, res] of the finished call f run as one step on containers
\* c; a call the validators refused (f.res is their code) changes nothing, and
\* a query has an outcome on c only if c gives the answer it returned
Atomic(c, f, reg) ==
  IF f.op = "CleanSubmittedTransactions"
  THEN { [c |-> cleanSubmittedTransactions(c, f.block), res |-> "nil"] }
  ELSE IF f.op = "GetTxnPool"
  THEN { [c |-> c, res |-> f.res] : m \in GetTxnPoolMaps(c.txnList, f.byCount, f.MaxTxInBlock) \cap {f.ret} }
  ELSE IF f.op = "GetTransaction"
  THEN { [c |-> c, res |-> f.res] : m \in {c.txnList \cap {f.txn}} \cap {f.ret} }
  ELSE IF f.op = "GetTransactionCount"
  THEN { [c |-> c, res |-> f.res] : m \in {Cardinality(c.txnList)} \cap {f.n} }
  ELSE IF f.res \notin PoolCodes THEN { [c |-> c, res |-> f.res] }
  ELSE IF ~f.poolVerify
       THEN { [c |-> [c EXCEPT !.txnList = addtxnList(@, f.txn)], res |-> ErrNoError] }
       ELSE { IF o.res = ErrNoError
              THEN [c |-> [o.c EXCEPT !.txnList = addtxnList(@, f.txn)], res |-> ErrNoError]
              ELSE o
            : o \in verifyTransactionWithTxnPool(c, f.txn, reg) }

\* the containers that the finished calls of the goroutines R, run one after
\* the other in some order from containers c, end in with the results they had
RECURSIVE SerialFrom(_, _)
SerialFrom(c, R) ==
  IF R = {} THEN {c}
  ELSE UNION { UNION { SerialFrom(o.c, R \ {p})
                     : o \in { x \in Atomic(c, local[p], AssetReg) : x.res = local[p].res } }
             : p \in R }

Quiescent == \A p \in Procs : pc[p] \in {"idle", "done"}
AllDone == \A p \in Procs : pc[p] = "done"
NoAppendRunning ==
  \A p \in Procs : pc[p] \in {"idle", "done"} \/ local[p].op = "CleanSubmittedTransactions"

\* a call that runs alone ends as the one-lock operation does
SeqIsAtomic ==
  \A p \in Procs :
    pc[p] = "done" => [c |-> Now, res |-> local[p].res] \in Atomic(pre, local[p], AssetReg)

\* ================================================================ claims
RECURSIVE SumOver(_, _)
SumOver(T, a) ==
  IF T = {} THEN 0
  ELSE LET t == CHOOSE x \in T : TRUE
       IN (IF a \in IssuedAssets(t) THEN GetMergedAssetIDValueFromOutputs(t)[a] ELSE 0)
          + SumOver(T \ {t}, a)

\* the amount of asset a that the pending IssueAsset transactions issue
PendingIssue(a) == SumOver({ t \in txnList : Tx[t].TxType = "IssueAsset" }, a)

\* goroutine p has finished AppendTxnPool(txn, true) past the two validators
AppendedWithPool(p) ==
  /\ pc[p] = "done"
  /\ local[p].op = "AppendTxnPool"
  /\ local[p].poolVerify
  /\ local[p].res \in PoolCodes

\* C1 (SpecAppend): under concurrent AppendTxnPool(txn, true) calls no two
\* distinct pending transactions reference the same prior output.
C1_NoSharedInputPending ==
  \A t1 \in txnList, t2 \in txnList :
    t1 # t2 => GetReference(t1) \cap GetReference(t2) = {}

\* C2 (Spec): when every goroutine has finished one call of a group of
\* overlapping calls, the results and the four containers are those of the
\* same calls run one at a time, each as one step, in some order, from the
\* containers the group started on.
C2_Serializable ==
  (AllDone /\ burst = NumProcs) => Now \in SerialFrom(pre, Procs)

\* C3 (SpecSeqPool): while no AppendTxnPool runs, for every asset registered
\* with a cap the issued quantity plus the pending issue amount, both as
\* issueSummary has it and as the pending IssueAsset transactions add up to,
\* is within the cap.
C3_IssuanceCap ==
  NoAppendRunning =>
    \A a \in Assets :
      AssetReg[a] >= 0 =>
        /\ QuantityIssued[a] + getAssetIssueAmount(issueSummary, a) <= AssetReg[a]
        /\ QuantityIssued[a] + PendingIssue(a) <= AssetReg[a]

\* C4 (SpecAppend): under concurrent AppendTxnPool(txn, true) calls at most one
\* pending transaction targets a given lock identifier.
C4_OneLockPerIdentifier ==
  \A t1 \in txnList \cap Locking, t2 \in txnList \cap Locking :
    t1 # t2 => Tx[t1].lock # Tx[t2].lock

\* C5 (SpecSeq): AppendTxnPool(T2, true) of a transaction one of whose
\* references is claimed by another transaction returns ErrDoubleSpend and
\* leaves txnList (so the count), inputUTXOList and the other containers as
\* they were before the call.
ClaimedByOther(p) ==
  \E o \in GetReference(local[p].txn) :
    getInputUTXOList(pre.inputUTXOList, o) \notin {"nil", local[p].txn}

C5_DoubleSpendRejected ==
  \A p \in Procs :
    (AppendedWithPool(p) /\ ClaimedByOther(p)) =>
      /\ local[p].res = ErrDoubleSpend
      /\ Now = pre

\* C5 witness: T2 was refused while one of its references was claimed by a
\* pending transaction and another of its references was free.
C5_Witness ==
  \E p \in Procs :
    /\ AppendedWithPool(p) /\ ClaimedByOther(p)
    /\ local[p].res = ErrDoubleSpend
    /\ \E o \in GetReference(local[p].txn) :
         getInputUTXOList(pre.inputUTXOList, o) \in txnList \ {local[p].txn}
    /\ \E o \in GetReference(local[p].txn) : o \notin DOMAIN pre.inputUTXOList

\* C6 (SpecSeq): after AppendTxnPool returned ErrSummaryAsset no inputUTXOList
\* entry is claimed by the refused transaction and the issueSummary amount of
\* every asset is what it was before the call.
C6_CapRejectionRollsBack ==
  \A p \in Procs :
    (AppendedWithPool(p) /\ local[p].res = ErrSummaryAsset) =>
      /\ \A o \in DOMAIN inputUTXOList : inputUTXOList[o] # local[p].txn
      /\ \A a \in Assets :
           getAssetIssueAmount(issueSummary, a) = getAssetIssueAmount(pre.issueSummary, a)

\* C7 (SpecSeq): after AppendTxnPool returned ErrDuplicateLockAsset the four
\* containers are what they were before the call.
C7_DuplicateLockLeavesPool ==
  \A p \in Procs :
    (AppendedWithPool(p) /\ local[p].res = ErrDuplicateLockAsset) => Now = pre

\* goroutine p has finished AppendTxnPool, past the two validators, of a
\* transaction that was pending when the call began
AppendedAgain(p) ==
  /\ pc[p] = "done"
  /\ local[p].op = "AppendTxnPool"
  /\ local[p].res \in PoolCodes
  /\ local[p].txn \in pre.txnList

BlockTxns(p) == Range(local[p].block) \cap NonBookKeeping

Cleaned(p) ==
  /\ pc[p] = "done"
  /\ local[p].op = "CleanSubmittedTransactions"
  /\ BlockTxns(p) \subseteq pre.txnList

Floor0(n) == IF n < 0 THEN 0 ELSE n

C9_BlockReconciliation ==
  \A p \in Procs :
    Cleaned(p) =>
      /\ txnList \cap BlockTxns(p) = {}
      /\ \A t \in BlockTxns(p) : GetReference(t) \cap DOMAIN inputUTXOList = {}
      /\ \A t \in BlockTxns(p) \cap Locking : Tx[t].lock \notin lockAssetList
      /\ \A a \in Assets :
           getAssetIssueAmount(issueSummary, a) =
             Floor0(getAssetIssueAmount(pre.issueSummary, a)
                    - SumOver(BlockTxns(p) \cap Issuing, a))

\* C9 witness: a block of two pending transactions, one of them an IssueAsset
\* transaction that had claimed an output and whose amounts were in
\* issueSummary, was cleaned.
C9_Witness ==
  \E p \in Procs :
    /\ Cleaned(p)
    /\ Cardinality(BlockTxns(p)) = 2
    /\ \E t \in BlockTxns(p) \cap Issuing :
         /\ \E o \in GetReference(t) : getInputUTXOList(pre.inputUTXOList, o) = t
         /\ \A a \in IssuedAssets(t) : getAssetIssueAmount(pre.issueSummary, a) > 0

\* C10 (SpecSeq): while no call runs, every inputUTXOList entry maps to a
\* pending transaction and every lockAssetList entry is the lock identifier of
\* a pending LockAsset transaction.
C10_EntriesOfPendingOnly ==
  Quiescent =>
    /\ \A o \in DOMAIN inputUTXOList : inputUTXOList[o] \in txnList
    /\ \A l \in lockAssetList : \E t \in txnList \cap Locking : Tx[t].lock = l

\* C11 (SpecSeqPool): a finished call that is neither AppendTxnPool of a
\* pending transaction t nor CleanSubmittedTransactions of a block holding t
\* (AppendTxnPool of another transaction, another block, a query)
\* leaves t pending, leaves every inputUTXOList entry of t and the lock string
\* of t in place, and takes from issueSummary no more than the amounts of its
\* own block.
OtherCall(p, t) ==
  /\ pc[p] = "done"
  /\ \/ local[p].op = "AppendTxnPool" /\ local[p].txn # t
     \/ local[p].op = "CleanSubmittedTransactions" /\ t \notin Range(local[p].block)
     \/ local[p].op \in {"GetTxnPool", "GetTransaction", "GetTransactionCount"}

C11_RemovedOnlyForOwnTransaction ==
  \A p \in Procs : \A t \in pre.txnList :
    OtherCall(p, t) =>
      /\ t \in txnList
      /\ \A o \in DOMAIN pre.inputUTXOList :
           pre.inputUTXOList[o] = t => getInputUTXOList(inputUTXOList, o) = t
      /\ (t \in Locking /\ Tx[t].lock \in pre.lockAssetList) => Tx[t].lock \in lockAssetList
      /\ \A a \in IssuedAssets(t) :
           getAssetIssueAmount(issueSummary, a) >=
             getAssetIssueAmount(pre.issueSummary, a)
               - (IF local[p].op = "CleanSubmittedTransactions"
                  THEN SumOver(BlockTxns(p) \cap Issuing, a) ELSE 0)

\* C12 (SpecSeq): an AppendTxnPool call whose VerifyTransaction or
\* VerifyTransactionWithLedger answered a failure code returns that code, the
\* first of the two that failed, and leaves the four containers as they were
\* when the call began.
VerificationFailed(p) ==
  /\ pc[p] = "done"
  /\ local[p].op = "AppendTxnPool"
  /\ \/ local[p].verify # ErrNoError
     \/ local[p].ledger \notin {ErrNoError, ""}

C12_VerificationFailurePassedThrough ==
  \A p \in Procs :
    VerificationFailed(p) =>
      /\ local[p].res = IF local[p].verify # ErrNoError THEN local[p].verify ELSE local[p].ledger
      /\ local[p].res \notin PoolCodes
      /\ Now = pre

\* C12 witness: VerifyTransactionWithLedger refused, with pool checks asked
\* for, an IssueAsset transaction that is not pending while others are.
C12_Witness ==
  \E p \in Procs :
    /\ VerificationFailed(p)
    /\ local[p].ledger = "ErrLedgerInvalid"
    /\ local[p].poolVerify
    /\ local[p].txn \in Issuing \ txnList
    /\ txnList # {}

\* C13 (SpecSeqPool): the map GetTxnPool(byCount) returns holds pending
\* transactions only; it holds all of them when byCount is false or
\* MaxTxInBlock <= 0, and exactly min(MaxTxInBlock, len(txnList)) of them when
\* byCount is true and MaxTxInBlock > 0. The pool is unchanged.
Candidates(p) == pc[p] = "done" /\ local[p].op = "GetTxnPool"

Min(a, b) == IF a < b THEN a ELSE b

C13_CandidateQuery ==
  \A p \in Procs :
    Candidates(p) =>
      LET f == local[p]
      IN /\ f.ret \subseteq pre.txnList
         /\ (~f.byCount \/ f.MaxTxInBlock <= 0) => f.ret = pre.txnList
         /\ (f.byCount /\ f.MaxTxInBlock > 0) =>
              Cardinality(f.ret) = Min(f.MaxTxInBlock, Cardinality(pre.txnList))
         /\ Now = pre

\* C13 witness: GetTxnPool(true) returned MaxTxInBlock transactions of a
\* larger pool.
C13_Witness ==
  \E p \in Procs :
    /\ Candidates(p)
    /\ local[p].byCount
    /\ local[p].MaxTxInBlock > 0
    /\ Cardinality(local[p].ret) = local[p].MaxTxInBlock
    /\ Cardinality(txnList) > local[p].MaxTxInBlock

\* C14 (SpecSeq): AppendTxnPool(txn, false) of a transaction both validators
\* accept returns ErrNoError, leaves txn pending with the rest of txnList as
\* it was, and leaves inputUTXOList, lockAssetList and issueSummary as they
\* were.
AppendedWithoutPool(p) ==
  /\ pc[p] = "done"
  /\ local[p].op = "AppendTxnPool"
  /\ ~local[p].poolVerify
  /\ local[p].verify = ErrNoError
  /\ local[p].ledger = ErrNoError

C14_NoPoolBookkeeping ==
  \A p \in Procs :
    AppendedWithoutPool(p) =>
      /\ local[p].res = ErrNoError
      /\ txnList = pre.txnList \cup {local[p].txn}
      /\ inputUTXOList = pre.inputUTXOList
      /\ lockAssetList = pre.lockAssetList
      /\ issueSummary = pre.issueSummary

\* C14 witness: AppendTxnPool(txn, false) made pending an IssueAsset
\* transaction with references, none of them in inputUTXOList, that was not
\* pending.
C14_Witness ==
  \E p \in Procs :
    /\ AppendedWithoutPool(p)
    /\ local[p].txn \in (Issuing \cap Referencing) \ pre.txnList
    /\ local[p].txn \in txnList
    /\ GetReference(local[p].txn) \cap DOMAIN inputUTXOList = {}

\* C15 (SpecAppend): two AppendTxnPool(txn, true) calls that began on the same
\* containers, for two IssueAsset transactions with separate unclaimed
\* references that issue a capped asset, each amount within the room the cap
\* leaves and the two together beyond it, end with one ErrNoError and one
\* ErrSummaryAsset.
Room(a) == AssetReg[a] - QuantityIssued[a]

Issue(t, a) == IF a \in IssuedAssets(t) THEN GetMergedAssetIDValueFromOutputs(t)[a] ELSE 0

Competing(t, u) ==
  /\ t # u
  /\ {t, u} \subseteq Issuing
  /\ GetReference(t) \cap GetReference(u) = {}
  /\ (GetReference(t) \cup GetReference(u)) \cap DOMAIN pre.inputUTXOList = {}
  /\ \E a \in IssuedAssets(t) \cap IssuedAssets(u) :
       /\ AssetReg[a] >= 0
       /\ getAssetIssueAmount(pre.issueSummary, a) + Issue(t, a) <= Room(a)
       /\ getAssetIssueAmount(pre.issueSummary, a) + Issue(u, a) <= Room(a)
       /\ getAssetIssueAmount(pre.issueSummary, a) + Issue(t, a) + Issue(u, a) > Room(a)
       /\ \A b \in (IssuedAssets(t) \cup IssuedAssets(u)) \ {a} :
            \/ AssetReg[b] < 0
            \/ getAssetIssueAmount(pre.issueSummary, b) + Issue(t, b) + Issue(u, b) <= Room(b)

C15_ConcurrentIssuanceHasWinner ==
  \A p \in Procs, q \in Procs :
    ( /\ p # q
      /\ burst = 2
      /\ AppendedWithPool(p)
      /\ AppendedWithPool(q)
      /\ Competing(local[p].txn, local[q].txn) )
    => {local[p].res, local[q].res} = {ErrNoError, ErrSummaryAsset}

\* C16 (SpecSeqPool): while no call runs, after any sequence of
\* AppendTxnPool(txn, true) calls and CleanSubmittedTransactions calls for
\* blocks of pending transactions, the issueSummary amount of every asset is
\* the sum of the amounts of it that the pending IssueAsset transactions issue.
C16_SummaryMatchesPending ==
  Quiescent =>
    \A a \in Assets : getAssetIssueAmount(issueSummary, a) = PendingIssue(a)

\* C18 (SpecSeq): AppendTxnPool(txn, true) of an IssueAsset transaction whose
\* issued assets are all registered with a negative amount never returns
\* ErrSummaryAsset, and when it returns ErrNoError issueSummary has grown by
\* the amount txn issues of every asset.
AllUnbounded(t) ==
  /\ t \in Issuing
  /\ IssuedAssets(t) # {}
  /\ \A a \in IssuedAssets(t) : AssetReg[a] < 0

C18_UnboundedNeverOverCap ==
  \A p \in Procs :
    (AppendedWithPool(p) /\ AllUnbounded(local[p].txn)) =>
      /\ local[p].res # ErrSummaryAsset
      /\ local[p].res = ErrNoError =>
           \A a \in Assets :
             getAssetIssueAmount(issueSummary, a) =
               getAssetIssueAmount(pre.issueSummary, a) + Issue(local[p].txn, a)

\* C18 witness: such a transaction was admitted although issueSummary plus
\* the quantity issued already exceeded every amount an asset is registered
\* with.
C18_Witness ==
  \E p \in Procs :
    /\ AppendedWithPool(p)
    /\ AllUnbounded(local[p].txn)
    /\ local[p].res = ErrNoError
    /\ \E a \in IssuedAssets(local[p].txn) :
         \A reg \in Registrations :
           QuantityIssued[a] + getAssetIssueAmount(pre.issueSummary, a) > reg[a]

\* C17 (SpecSeq): in every state every issueSummary amount is >= 0, the
\* states inside CleanSubmittedTransactions of a block with IssueAsset
\* transactions that were never pending and inside removeTransaction included;
\* and an asset gets an issueSummary entry only by incrAssetIssueAmountSummary,
\* never by a subtraction.
EntriesOnlyByIncr ==
  \A a \in Assets :
    (a \notin DOMAIN issueSummary /\ a \in DOMAIN issueSummary') =>
      \E p \in Procs :
        /\ pc[p] = "incrAssetIssueAmountSummary"
        /\ pc'[p] # "incrAssetIssueAmountSummary" \/ local'[p].todo # local[p].todo
        /\ a \in local[p].todo

C17_SummaryNeverNegative ==
  /\ [](\A a \in DOMAIN issueSummary : issueSummary[a] >= 0)
  /\ [][EntriesOnlyByIncr]_vars

\* C17 witness: CleanSubmittedTransactions of a block whose IssueAsset
\* transactions were not pending subtracted more than the entry of one asset
\* held, leaving 0, and found no entry for another asset, leaving none.
C17_Witness ==
  \E p \in Procs :
    /\ pc[p] = "done"
    /\ local[p].op = "CleanSubmittedTransactions"
    /\ BlockTxns(p) \cap Issuing \cap pre.txnList = {}
    /\ \E a \in DOMAIN pre.issueSummary :
         /\ pre.issueSummary[a] > 0
         /\ pre.issueSummary[a] < SumOver(BlockTxns(p) \cap Issuing, a)
         /\ issueSummary[a] = 0
    /\ \E b \in Assets \ DOMAIN issueSummary : SumOver(BlockTxns(p) \cap Issuing, b) > 0

\* C19 (SpecSeq): an AppendTxnPool call that returns a failure code, whatever
\* poolVerify is and whether or not txn was pending already, leaves txnList,
\* and with it GetTransactionCount, as it was when the call began.
C19_RejectionEvictsNothing ==
  \A p \in Procs :
    ( /\ pc[p] = "done"
      /\ local[p].op = "AppendTxnPool"
      /\ local[p].res # ErrNoError )
    => /\ txnList = pre.txnList
       /\ Cardinality(txnList) = Cardinality(pre.txnList)

\* C20 (Spec): every call that has begun and not yet returned can take its
\* next step whatever the other goroutines are doing, so that a call that is
\* scheduled again and again reaches its return.
InCall(p) == pc[p] \notin {"idle", "done"}

C20_EveryCallCanProceed ==
  \A p \in Procs : InCall(p) => ENABLED (AppendSteps(p) \/ CleanSteps(p))

====
